---- MODULE Spec2Model ----
(***************************************************************************)
(* The background task queue of services/taskQueueService.js and the       *)
(* queued e-mail jobs of services/emailService.js with their delivery      *)
(* tiers (primary transporter, emailFallbackService, noopEmailService)     *)
(* and the attempt log of services/emailLogger.js.                         *)
(*                                                                         *)
(* JavaScript runs one callback at a time: an action of this module is     *)
(* the code that runs between two suspension points (an await on a         *)
(* transport, on the file system, on the job body, or a timer).  A job     *)
(* body is an async function, as all bodies passed to addTask are: the     *)
(* call of the body in processQueue returns a promise, and what follows    *)
(* the await runs when the body has returned or thrown.  Continuations     *)
(* that wait for nothing outside the process (an await on a promise that   *)
(* is already settled) run in the same action.  Delays are not modelled:   *)
(* a retry timer fires at any later moment.                                *)
(*                                                                         *)
(* Spec is the queue with jobs of any kind, MailSpec the queue with the    *)
(* e-mail jobs and the logger, LogSpec the logger called on its own.       *)
(* ReadSpec and StatusSpec add the getters of the status routes to the     *)
(* logger and to the queue, StartSpec is the start of the server with      *)
(* emailService.testConnection, and PaySpec the payment verification of    *)
(* an order by POST /verify-payment and by the abandoned-payment checker.  *)
(***************************************************************************)
EXTENDS Integers, Sequences, FiniteSets, TLC

\* Bounds of the model: the addTask calls of a run, the times a job body
\* throws in a run, the addTask calls of a run of the e-mail jobs, the
\* logEmailAttempt calls of a run of the logger alone and how many of them,
\* from the first on, have file operations that can fail; the getStats
\* calls a reader makes in a row; the testConnection calls of a run and the
\* addTask calls of a run that starts with testConnection; the verify-payment
\* requests and runs of the abandoned-payment checker for one order.
MaxJobs == 5
MaxThrows == 2
MaxMailJobs == 3
MaxCalls == 150
MaxFaultyCalls == 3
MaxReads == 2
MaxConnTests == 1
MaxStartJobs == 2
MaxHandlers == 2

\* The maxRetries a caller of createTaskOptions passes for a task that is
\* not an e-mail job.
RetryArgs == {0, 1}

\* Program constants.
\* A faulty ceiling, one slot too many.
maxConcurrentPlusOne == 3 + 1
maxConcurrent == 3
DefaultMaxRetries == 3
MailMaxRetries == 3
maxMemoryLogs == 100
maxFileLogs == 500

Jobs == 1..MaxJobs

\* The values a job body can throw: an Error object, another value that is
\* not null or undefined (a string, a number), or null / undefined.
Thrown == {"Error", "value", "nullish"}

MailNames == {"sendCustomerOrderConfirmation", "sendAdminOrderNotification",
              "sendOrderStatusUpdate", "sendNewOrderNotification"}
TieredNames == {"sendCustomerOrderConfirmation", "sendNewOrderNotification"}

NullId == <<"null", 0>>
NoEntry == [type |-> "none", orderId |-> 0, status |-> "none",
            messageId |-> NullId, error |-> "null", retryCount |-> 0]
\* The file logs/email-logs.json before EmailLogger.init has looked at it.
NoFile == [valid |-> TRUE, logs |-> <<>>]
NoValue == [success |-> FALSE, failed |-> FALSE, messageId |-> NullId,
            error |-> "null", retries |-> 0]

VARIABLES
  queue,          \* TaskQueue.queue: the pending tasks, head first
  processing,     \* TaskQueue.processing
  activeTasks,    \* TaskQueue.activeTasks
  tasks,          \* the task objects created by addTask, by job number
  submitted,      \* number of addTask calls so far
  unhandled,      \* processQueue() promises that ended rejected
  throws,         \* number of times a job body has thrown so far
  memoryLogs,     \* EmailLogger.memoryLogs, most recent first
  initialized,    \* EmailLogger.initialized
  logFile,        \* content of logs/email-logs.json
  active,         \* NoopEmailService.active
  fallbackUsed,   \* EmailFallbackService.fallbackUsed
  fallbackSuccess, \* EmailFallbackService.fallbackSuccess
  mail,           \* the locals of the e-mail job bodies in flight, by job
  returned,       \* the logEmailAttempt calls of e-mail jobs that have
                  \* returned: the entry returned and what became of the file
  test,           \* a caller that awaits logEmailAttempt calls one by one
  conn,           \* the position and the locals of testConnection
  order,          \* the document of an online-payment order in the database
  handlers,       \* the verify-payment requests and abandoned-payment
                  \* checks for that order: position and locals of each
  observed        \* what the last getStatus, getStats or getRecentLogs
                  \* returned to a status route, if nothing has run since

\* The state of the services.
state == <<queue, processing, activeTasks, tasks, submitted, unhandled, throws,
           memoryLogs, initialized, logFile, active, fallbackUsed,
           fallbackSuccess, mail, returned, test, conn, order, handlers>>

vars == <<state, observed>>

\* No value returned to a status route.
NoObserved ==
  [op |-> "none", calls |-> 0, limit |-> 0,
   status |-> [queueLength |-> 0, activeTasks |-> 0, isProcessing |-> FALSE],
   stats |-> [total |-> 0, success |-> 0, failed |-> 0, successRate |-> 0,
              lastAttempt |-> NoEntry],
   recent |-> <<>>]

\* The whole state as one record, so that a handler is a function on it.
World == [queue |-> queue, processing |-> processing,
          activeTasks |-> activeTasks, tasks |-> tasks,
          submitted |-> submitted, unhandled |-> unhandled, throws |-> throws,
          memoryLogs |-> memoryLogs, initialized |-> initialized,
          logFile |-> logFile, active |-> active,
          fallbackUsed |-> fallbackUsed, fallbackSuccess |-> fallbackSuccess,
          mail |-> mail, returned |-> returned, test |-> test, conn |-> conn,
          order |-> order, handlers |-> handlers]

Becomes(w) ==
  /\ queue' = w.queue
  /\ processing' = w.processing
  /\ activeTasks' = w.activeTasks
  /\ tasks' = w.tasks
  /\ submitted' = w.submitted
  /\ unhandled' = w.unhandled
  /\ throws' = w.throws
  /\ memoryLogs' = w.memoryLogs
  /\ initialized' = w.initialized
  /\ logFile' = w.logFile
  /\ active' = w.active
  /\ fallbackUsed' = w.fallbackUsed
  /\ fallbackSuccess' = w.fallbackSuccess
  /\ mail' = w.mail
  /\ returned' = w.returned
  /\ test' = w.test
  /\ conn' = w.conn
  /\ order' = w.order
  /\ handlers' = w.handlers
  /\ observed' = NoObserved

\* The locals of an e-mail job body: the tiers it has tried in this
\* invocation and how each sendMail that has completed ended, the entry
\* and the logs array of the logEmailAttempt call it is suspended in, what
\* follows that call, and the value the body returns then.
NoMail == [attempts |-> <<>>, outcomes |-> <<>>, entry |-> NoEntry,
           logs |-> <<>>, cont |-> "none", ret |-> NoValue]

\* The locals of the caller that uses the logger alone: the calls made, what
\* the last call that returned did with the file, and the position, entry
\* and logs array of the call in progress.
NoTest == [calls |-> 0, last |-> "none", pc |-> "idle", entry |-> NoEntry,
           logs |-> <<>>]

\* testConnection not called yet: its position, the calls made, and how the
\* verify of the transporter and of the fallback transporter ended.
NoConn == [pc |-> "none", calls |-> 0, primary |-> "none", fallback |-> "none"]

Handlers == 1..MaxHandlers

\* The fields of an order document that payment verification reads or
\* writes, as POST /create saves them for a Razorpay order: payment.status,
\* status, emailSent and payment.checkCount at their schema defaults.
NewOrder == [paymentStatus |-> "pending", status |-> "pending",
             emailSent |-> [customer |-> FALSE, admin |-> FALSE],
             checkCount |-> 0]

\* A handler that has not been called: its position, whether it is a
\* verify-payment request or a run of the checker, the razorpay_signature
\* it passes to verifyAndUpdateOrder, its order document and the document
\* as loaded or last saved, the confirmation e-mails it has submitted, the
\* job it awaits and how it ended.
NoHandler == [pc |-> "none", kind |-> "none", signature |-> "none",
              doc |-> NewOrder, base |-> NewOrder, mails |-> 0, job |-> 0,
              result |-> "none"]

\* x || d of JavaScript on numbers: 0 is falsy.
JsOr(x, d) == IF x = 0 THEN d ELSE x

\* A task object that addTask has not created yet.
NoTask == [taskName |-> "none", options |-> 0, maxRetries |-> 0, retries |-> 0,
           pc |-> "none", invocations |-> 0, resolveCalls |-> 0,
           value |-> NoValue]

\* TaskQueue.createTaskOptions / the default options of addTask: the
\* maxRetries of the options object a caller of addTask ends up with.
OptionsOf(name, arg) ==
  CASE name \in TieredNames -> MailMaxRetries
    [] name \in MailNames -> DefaultMaxRetries
    [] OTHER -> arg

\* The task object of addTask.
NewTask(name, arg) ==
  [NoTask EXCEPT !.taskName = name,
                 !.options = OptionsOf(name, arg),
                 !.maxRetries = JsOr(OptionsOf(name, arg), DefaultMaxRetries),
                 !.pc = "queued"]

\* Where a job body is suspended first: an e-mail body awaits the primary
\* transporter's sendMail, any other body awaits its own work.
BodyEntry(name) == IF name \in MailNames THEN "primary" ELSE "body"

\* The guard of processQueue.
QueueBlocked(w) == Len(w.queue) = 0 \/ w.activeTasks >= maxConcurrent

\* processQueue up to its await: take the head task and call its body.
ProcessQueue(w) ==
  IF QueueBlocked(w) THEN w
  ELSE LET j == Head(w.queue) IN
       [w EXCEPT !.processing = TRUE,
                 !.activeTasks = @ + 1,
                 !.queue = Tail(@),
                 !.tasks[j].pc = BodyEntry(w.tasks[j].taskName),
                 !.tasks[j].invocations = @ + 1,
                 !.mail[j] = IF w.tasks[j].taskName \in MailNames
                             THEN [NoMail EXCEPT !.attempts = <<"primary">>]
                             ELSE NoMail]

\* What addTask and the retry timer do after their push.
StartIfIdle(w) == IF ~w.processing THEN ProcessQueue(w) ELSE w

\* task.resolve(v): only the first call settles the promise.
Resolve(w, j, v) ==
  [w EXCEPT !.tasks[j].resolveCalls = @ + 1,
            !.tasks[j].value = IF w.tasks[j].resolveCalls = 0 THEN v ELSE @]

\* A finally block that never looks at the queue again.
FinallyNoRestart(w) ==
  LET w1 == [w EXCEPT !.activeTasks = @ - 1]
  IN IF w1.activeTasks = 0 THEN [w1 EXCEPT !.processing = FALSE] ELSE w1
\* A finally block that never clears the processing flag.
FinallyKeepsProcessing(w) ==
  LET w1 == [w EXCEPT !.activeTasks = @ - 1]
      w2 == ProcessQueue(w1)
  IN ProcessQueue(w2)

\* The finally block of processQueue.
Finally(w) ==
  LET w1 == [w EXCEPT !.activeTasks = @ - 1]
      w2 == IF Len(w1.queue) > 0 THEN ProcessQueue(w1)
            ELSE IF w1.activeTasks = 0 THEN [w1 EXCEPT !.processing = FALSE]
            ELSE w1
  IN IF w2.activeTasks < maxConcurrent /\ Len(w2.queue) > 0
     THEN ProcessQueue(w2) ELSE w2

\* The value of the terminal failure.
FailureValue(t, e) ==
  [NoValue EXCEPT !.failed = TRUE, !.retries = t.retries,
                  !.error = IF e = "Error" THEN "message" ELSE "undefined"]

\* The try block of processQueue after the await, when the body returned.
OnReturn(w, j, v) ==
  Resolve([w EXCEPT !.tasks[j].pc = "done"], j, v)

\* A retry test that lets one retry too many through.
RetriesRemainOrEqual(t) == t.retries <= t.maxRetries
\* The retry test of the catch block of processQueue.
RetriesRemain(t) == t.retries < t.maxRetries

\* The catch block of processQueue.  Reading error.message of null or
\* undefined throws a TypeError out of the catch block: resolve is not
\* called and the promise of processQueue is rejected, with nobody
\* awaiting it.
OnThrow(w, j, e) ==
  LET t == w.tasks[j] IN
  IF RetriesRemain(t)
  THEN [w EXCEPT !.tasks[j].retries = @ + 1, !.tasks[j].pc = "timer"]
  ELSE IF e = "nullish"
  THEN [w EXCEPT !.tasks[j].pc = "done", !.unhandled = @ + 1]
  ELSE Resolve([w EXCEPT !.tasks[j].pc = "done"], j, FailureValue(t, e))

\* ---------------------------------------------------------------------
\* The attempt log (emailLogger) and the e-mail job bodies (emailService).

Take(s, n) == IF Len(s) > n THEN SubSeq(s, 1, n) ELSE s
Unshift(s, e) == <<e>> \o s

\* The log entry logEmailAttempt builds from emailData.  A field that
\* emailData lacks is NullId / "null" / 0 here, which is what `|| null` and
\* `|| 0` make of it.
LogEntry(d) ==
  [type |-> d.type, orderId |-> d.orderId,
   status |-> IF d.success THEN "success" ELSE "failed",
   messageId |-> d.messageId, error |-> d.error, retryCount |-> d.retryCount]

\* A memory log that is never cut.
MemoryPushUncut(logs, e) == Unshift(logs, e)
\* memoryLogs.unshift(logEntry) and the slice to maxMemoryLogs.
MemoryPush(logs, e) == Take(Unshift(logs, e), maxMemoryLogs)

\* JSON.parse of the content of the file; content that does not parse
\* leaves logs = [].
ParsedLogs(file) == IF file.valid THEN file.logs ELSE <<>>

\* A file log that puts the entry at the end and keeps the first 500.
FilePushAtEnd(file, e) == Take(Append(ParsedLogs(file), e), maxFileLogs)
\* logs.unshift(logEntry) and the slice to 500 of the parsed file.
FilePush(file, e) == Take(Unshift(ParsedLogs(file), e), maxFileLogs)

\* metadata.type of the two tiered bodies.
MetadataType(name) ==
  IF name = "sendCustomerOrderConfirmation" THEN "customer_confirmation"
  ELSE "admin_notification"

\* The emailData a tiered body of job j passes to logEmailAttempt; the
\* order of job j has orderId j.
EmailData(w, j, ok, id, err, rc) ==
  [type |-> MetadataType(w.tasks[j].taskName), orderId |-> j, success |-> ok,
   messageId |-> id, error |-> err, retryCount |-> rc]

\* A success result that lacks the messageId.
DeliveredWithoutId(id) == [NoValue EXCEPT !.success = TRUE]
Delivered(id) == [NoValue EXCEPT !.success = TRUE, !.messageId = id]
NotDelivered(err) == [NoValue EXCEPT !.error = err]

\* A sendMail of the body of job j has completed with outcome o.
Completed(w, j, o) == [w EXCEPT !.mail[j].outcomes = Append(@, o)]

\* The e-mail body of job j returns v, and processQueue resumes in its try
\* block.
Return(w, j, v) ==
  Finally(OnReturn([w EXCEPT !.mail[j].entry = NoEntry, !.mail[j].logs = <<>>,
                             !.mail[j].cont = "none", !.mail[j].ret = NoValue],
                   j, v))

\* A NoOp service that is used whether activated or not.
UseNoopAlways(w) == TRUE
\* The test `noopEmailService.active` of the tiered bodies.
UseNoop(w) == w.active

RECURSIVE LogEmailAttempt(_, _, _, _, _)
RECURSIVE Continue(_, _)

\* logEmailAttempt returns its entry to the body of job j; file says what
\* the call did with the file: "skipped" (logger not initialized), "written"
\* or "failed".
LogReturns(w, j, file) ==
  Continue([w EXCEPT !.returned = @ \cup {[entry |-> w.mail[j].entry,
                                          file |-> file]}], j)

\* A logEmailAttempt without its catch block: the error of the file
\* operation is thrown to the body, out of the body and to processQueue.
LogFailedThrows(w, j) == Finally(OnThrow(w, j, "Error"))
\* The catch block of logEmailAttempt: the error is printed.
LogFailed(w, j) == LogReturns(w, j, "failed")

\* logEmailAttempt(d) called by the body of job j, up to its first await:
\* the entry goes to the memory log; the file is touched only when the
\* logger is initialized.  cont and ret say what the body does when the
\* call has returned.
LogEmailAttempt(w, j, d, cont, ret) ==
  LET e == LogEntry(d)
      w1 == [w EXCEPT !.memoryLogs = MemoryPush(@, e),
                      !.mail[j].entry = e,
                      !.mail[j].cont = cont,
                      !.mail[j].ret = ret]
  IN IF w1.initialized THEN [w1 EXCEPT !.tasks[j].pc = "logRead"]
     ELSE LogReturns(w1, j, "skipped")

\* The body of job j after a logEmailAttempt call has returned.  After the
\* log of a failed fallback, emailFallback.sendMail returns success false,
\* the body throws 'Both primary and fallback email delivery failed' and
\* its catch block uses the NoOp service if it is active and logs the
\* final failure if not.  noopEmailService.sendMail sends nothing and
\* always succeeds.
Continue(w, j) ==
  IF w.mail[j].cont = "return" THEN Return(w, j, w.mail[j].ret)
  ELSE IF UseNoop(w)
  THEN LogEmailAttempt(
         Completed([w EXCEPT !.mail[j].attempts = Append(@, "simulated")],
                   j, "sent"),
         j, EmailData(w, j, TRUE, <<"noop", j>>, "null", 2),
         "return", Delivered(<<"noop", j>>))
  ELSE LogEmailAttempt(w, j, EmailData(w, j, FALSE, NullId, "both failed", 0),
                       "return", NotDelivered("both failed"))

\* The emailData of call n of the caller that uses the logger alone.
TestData(n) ==
  [type |-> "test", orderId |-> n, success |-> n % 2 = 1,
   messageId |-> IF n % 2 = 1 THEN <<"test", n>> ELSE NullId,
   error |-> IF n % 2 = 1 THEN "null" ELSE "message", retryCount |-> n % 3]

\* The entries a file holds that earlier runs of the server have written,
\* most recent first.
OldLogs(n) ==
  [i \in 1..n |-> [NoEntry EXCEPT !.type = "old", !.orderId = 0 - i,
                                  !.status = "success"]]

\* logs/email-logs.json as EmailLogger.init can find or create it: created
\* empty, or found with content that does not parse.
MailFiles == {[valid |-> v, logs |-> <<>>] : v \in BOOLEAN}
\* The same, or found one entry short of full.
TestFiles == MailFiles \cup {[valid |-> TRUE, logs |-> OldLogs(maxFileLogs - 1)]}

Constructed ==
  /\ queue = <<>>
  /\ processing = FALSE
  /\ activeTasks = 0
  /\ tasks = [j \in Jobs |-> NoTask]
  /\ submitted = 0
  /\ unhandled = 0
  /\ throws = 0
  /\ memoryLogs = <<>>
  /\ initialized = FALSE
  /\ logFile = NoFile
  /\ fallbackUsed = 0
  /\ fallbackSuccess = 0
  /\ mail = [j \in Jobs |-> NoMail]
  /\ returned = {}
  /\ test = NoTest
  /\ conn = NoConn
  /\ order = NewOrder
  /\ handlers = [h \in Handlers |-> NoHandler]
  /\ observed = NoObserved

\* The state after the modules are loaded, with e-mail credentials
\* configured (the constructor of EmailService leaves the NoOp service off).
Init == Constructed /\ active = FALSE

\* The same, where the constructor of EmailService may have activated the
\* NoOp service (development mode without credentials).
MailInit == Constructed /\ active \in BOOLEAN

\* An addTask that puts the task in front of the queue.
AddTaskAtHead(name, arg) ==
  /\ submitted < MaxJobs
  /\ LET j == submitted + 1
         w == [World EXCEPT !.submitted = j,
                            !.tasks[j] = NewTask(name, arg),
                            !.queue = <<j>> \o @]
     IN Becomes(StartIfIdle(w))

\* addTask(taskFn, taskName, ...args): the promise executor.
AddTask(name, arg) ==
  /\ submitted < MaxJobs
  /\ LET j == submitted + 1
         w == [World EXCEPT !.submitted = j,
                            !.tasks[j] = NewTask(name, arg),
                            !.queue = Append(@, j)]
     IN Becomes(StartIfIdle(w))

\* The body of a task that is not an e-mail job returns, and processQueue
\* resumes after `await task.taskFn(...)` in its try block.
BodyReturns(j) ==
  /\ tasks[j].pc = "body"
  /\ Becomes(Finally(OnReturn(World, j, [NoValue EXCEPT !.success = TRUE])))

\* The body of a task that is not an e-mail job throws (or rejects with) e,
\* and processQueue resumes in its catch block.
BodyThrows(j, e) ==
  /\ tasks[j].pc = "body"
  /\ throws < MaxThrows
  /\ Becomes(Finally(OnThrow([World EXCEPT !.throws = @ + 1], j, e)))

\* A retry timer that puts the task in front of the queue.
RetryTimerAtHead(j) ==
  /\ tasks[j].pc = "timer"
  /\ Becomes(StartIfIdle([World EXCEPT !.queue = <<j>> \o @,
                                       !.tasks[j].pc = "queued"]))

\* The callback of setTimeout in the catch block of processQueue.
RetryTimer(j) ==
  /\ tasks[j].pc = "timer"
  /\ Becomes(StartIfIdle([World EXCEPT !.queue = Append(@, j),
                                       !.tasks[j].pc = "queued"]))

\* emailLogger.init(), called by testConnection at start-up: the file is
\* created empty unless it exists; a file that exists is left as it is,
\* unparsable content included.  file is what is on the disk when init
\* has returned.  (A failed init changes nothing.)
LoggerInit(file) ==
  /\ ~initialized
  /\ Becomes([World EXCEPT !.initialized = TRUE, !.logFile = file])

\* noopEmailService.activate(), called by testConnection when neither the
\* transporter nor the fallback transporter can be verified.
Activate ==
  /\ ~active
  /\ Becomes([World EXCEPT !.active = TRUE])

\* transporter.sendMail of the body of job j succeeds.
PrimarySent(j) ==
  /\ tasks[j].pc = "primary"
  /\ LET id == <<"primary", j>>
         w == Completed(World, j, "sent")
     IN IF tasks[j].taskName \in TieredNames
        THEN Becomes(LogEmailAttempt(w, j, EmailData(w, j, TRUE, id, "null", 0),
                                     "return", Delivered(id)))
        ELSE Becomes(Return(w, j, Delivered(id)))

\* A tiered body that goes from the failed primary to its last resort.
PrimaryFailedSkipsFallback(j) ==
  /\ tasks[j].pc = "primary"
  /\ Becomes(Continue([Completed(World, j, "failed")
                         EXCEPT !.mail[j].cont = "fallbackFailed"], j))

\* transporter.sendMail of the body of job j fails: a tiered body calls
\* emailFallback.sendMail, the other bodies return the failure.
PrimaryFailed(j) ==
  /\ tasks[j].pc = "primary"
  /\ LET w == Completed(World, j, "failed") IN
     IF tasks[j].taskName \in TieredNames
     THEN Becomes([w EXCEPT !.fallbackUsed = @ + 1,
                            !.tasks[j].pc = "fallback",
                            !.mail[j].attempts = Append(@, "fallback")])
     ELSE Becomes(Return(w, j, NotDelivered("message")))

\* fallbackTransporter.sendMail succeeds in emailFallback.sendMail.
FallbackSent(j) ==
  /\ tasks[j].pc = "fallback"
  /\ LET id == <<"fallback", j>>
         w == Completed([World EXCEPT !.fallbackSuccess = @ + 1], j, "sent")
     IN Becomes(LogEmailAttempt(w, j, EmailData(w, j, TRUE, id, "null", 1),
                                "return", Delivered(id)))

\* fallbackTransporter.sendMail fails in emailFallback.sendMail.
FallbackFailed(j) ==
  /\ tasks[j].pc = "fallback"
  /\ LET w == Completed(World, j, "failed") IN
     Becomes(LogEmailAttempt(w, j,
                             EmailData(w, j, FALSE, NullId, "message", 1),
                             "fallbackFailed", NoValue))

\* fs.readFile of logEmailAttempt completes.  Read: the content is parsed
\* (unparsable content counts as no logs), the entry is put in front, the
\* array is cut to 500 and fs.writeFile is called.  Not read (or read as
\* JSON that is no array, which makes unshift throw): the catch block, and
\* logEmailAttempt returns.
LogRead(j, ok) ==
  /\ tasks[j].pc = "logRead"
  /\ IF ok
     THEN Becomes([World EXCEPT
                     !.mail[j].logs = FilePush(logFile, mail[j].entry),
                     !.tasks[j].pc = "logWrite"])
     ELSE Becomes(LogFailed(World, j))

\* fs.writeFile of logEmailAttempt completes, written or not, and
\* logEmailAttempt returns.
LogWrite(j, ok) ==
  /\ tasks[j].pc = "logWrite"
  /\ IF ok
     THEN Becomes(LogReturns([World EXCEPT
                                !.logFile = [valid |-> TRUE,
                                             logs |-> mail[j].logs]],
                             j, "written"))
     ELSE Becomes(LogFailed(World, j))

\* The caller that uses the logger alone calls logEmailAttempt, which runs
\* up to its first await, or to its end when the logger is not initialized.
TestRecord ==
  /\ test.pc = "idle"
  /\ test.calls < MaxCalls
  /\ LET n == test.calls + 1
         e == LogEntry(TestData(n))
     IN Becomes([World EXCEPT
                   !.memoryLogs = MemoryPush(@, e),
                   !.test.calls = n,
                   !.test.last = IF initialized THEN @ ELSE "skipped",
                   !.test.entry = IF initialized THEN e ELSE NoEntry,
                   !.test.pc = IF initialized THEN "logRead" ELSE "idle"])

\* That call returns; file says what it did with the file.
TestReturns(w, file) ==
  [w EXCEPT !.test = [NoTest EXCEPT !.calls = w.test.calls, !.last = file]]

\* fs.readFile of that call completes.
TestLogRead(ok) ==
  /\ test.pc = "logRead"
  /\ ok \/ test.calls <= MaxFaultyCalls
  /\ IF ok
     THEN Becomes([World EXCEPT !.test.logs = FilePush(logFile, test.entry),
                                !.test.pc = "logWrite"])
     ELSE Becomes(TestReturns(World, "failed"))

\* fs.writeFile of that call completes, and the call returns.
TestLogWrite(ok) ==
  /\ test.pc = "logWrite"
  /\ ok \/ test.calls <= MaxFaultyCalls
  /\ IF ok
     THEN Becomes(TestReturns([World EXCEPT
                                 !.logFile = [valid |-> TRUE,
                                              logs |-> test.logs]],
                              "written"))
     ELSE Becomes(TestReturns(World, "failed"))

\* ---------------------------------------------------------------------
\* emailService.testConnection(), step by step.

\* How Promise.race of transporter.verify() and the 15 s timer can end.
VerifyOutcomes == {"ok", "error", "timeout"}

\* testConnection is called and runs up to `await emailLogger.init()`.
TestConnection ==
  /\ conn.pc \in {"none", "done"}
  /\ conn.calls < MaxConnTests
  /\ Becomes([World EXCEPT !.conn = [NoConn EXCEPT !.pc = "init",
                                                   !.calls = conn.calls + 1]])

\* emailLogger.init() returns: with ok, the directory and the file exist
\* and initialized is set (a file that was there before is left as it is,
\* a file that was not is created empty); without, the catch block of init
\* has printed the error.  testConnection goes on to the race of
\* transporter.verify() and the timer.
InitReturns(file, ok) ==
  /\ conn.pc = "init"
  /\ LET w == IF ok THEN [World EXCEPT !.initialized = TRUE,
                                       !.logFile = IF initialized THEN @
                                                   ELSE file]
              ELSE World
     IN Becomes([w EXCEPT !.conn.pc = "verify"])

\* The race ends.  Won by a verify that succeeded: the try block calls
\* emailFallback.testConnection() (its result is not used).  Rejected by
\* the verify or by the timer: the catch block calls
\* emailFallback.testConnection().
VerifyEnds(o) ==
  /\ conn.pc = "verify"
  /\ Becomes([World EXCEPT !.conn.primary = o,
                           !.conn.pc = IF o = "ok" THEN "fallbackTest"
                                       ELSE "fallbackRetry"])

\* emailFallback.testConnection() never throws: it returns whether the
\* fallback transporter could be verified.
FallbackResult(ok) == IF ok THEN "ok" ELSE "failed"

\* The call of the try block returns, and testConnection returns true.
FallbackTested(ok) ==
  /\ conn.pc = "fallbackTest"
  /\ Becomes([World EXCEPT !.conn.fallback = FallbackResult(ok),
                           !.conn.pc = "done"])

\* A catch block that activates the NoOp service whatever the fallback
\* check says.
RetriedAlwaysActivates(w, ok) ==
  [w EXCEPT !.conn.fallback = FallbackResult(ok), !.conn.pc = "done",
            !.active = TRUE]
\* The catch block of testConnection after its await: return true when
\* the fallback is verified, noopEmailService.activate() and return true
\* when it is not.
Retried(w, ok) ==
  [w EXCEPT !.conn.fallback = FallbackResult(ok), !.conn.pc = "done",
            !.active = IF ok THEN @ ELSE TRUE]

\* The call of the catch block returns.
FallbackRetried(ok) ==
  /\ conn.pc = "fallbackRetry"
  /\ Becomes(Retried(World, ok))

\* ---------------------------------------------------------------------
\* Payment verification of an online-payment order: POST /verify-payment
\* and the abandoned-payment checker of CronService, both through
\* paymentService.verifyAndUpdateOrder.

\* The e-mails both paths send after a verification, in their order.
ConfirmationMails == <<"sendCustomerOrderConfirmation",
                       "sendAdminOrderNotification",
                       "sendNewOrderNotification">>

\* The razorpay_signature of a verify-payment request (the validator
\* refuses an empty one): the HMAC of the ids, or anything else.
Signatures == {"valid", "invalid"}
\* What checkOrderPaymentStatus can return for the Razorpay order.
PaymentStates == {"paid", "unpaid", "error"}

\* verifyPaymentSignature(...).success.
VerifyPaymentSignature(sig) == sig = "valid"

\* The test of verifyAndUpdateOrder: a signature that is there must verify.
Verified(sig) == sig = "none" \/ VerifyPaymentSignature(sig)

\* What verifyAndUpdateOrder assigns to the document before it saves.
UpdatedOrder(doc, sig) ==
  IF Verified(sig)
  THEN [doc EXCEPT !.paymentStatus = "completed", !.status = "confirmed"]
  ELSE [doc EXCEPT !.paymentStatus = "failed"]

\* order.save(): the paths of the document that were changed since it was
\* loaded or last saved are written, the others stay as the database has
\* them.
Save(db, doc, base) ==
  [f \in DOMAIN db |-> IF doc[f] # base[f] THEN doc[f] ELSE db[f]]

\* taskQueue.addTask as the send functions of emailService call it.
AddTaskIn(w, name) ==
  LET j == w.submitted + 1
  IN StartIfIdle([w EXCEPT !.submitted = j,
                           !.tasks[j] = NewTask(name, DefaultMaxRetries),
                           !.queue = Append(@, j)])

\* Handler h calls the next send function and awaits its promise.
SendNext(w, h) ==
  LET n == w.handlers[h].mails + 1
      w1 == AddTaskIn(w, ConfirmationMails[n])
  IN [w1 EXCEPT !.handlers[h].mails = n,
                !.handlers[h].job = w1.submitted,
                !.handlers[h].pc = "mail"]

\* Handler h has ended.
Ends(w, h, result) ==
  [w EXCEPT !.handlers[h].pc = "done", !.handlers[h].job = 0,
            !.handlers[h].result = result]

\* POST /verify-payment arrives and awaits Order.findOne.
VerifyPayment(h, sig) ==
  /\ handlers[h].pc = "none"
  /\ Becomes([World EXCEPT !.handlers[h] =
        [NoHandler EXCEPT !.pc = "find", !.kind = "verify",
                          !.signature = sig]])

\* The minute callback of the checker runs and awaits Order.find.
CronCheck(h) ==
  /\ handlers[h].pc = "none"
  /\ Becomes([World EXCEPT !.handlers[h] =
        [NoHandler EXCEPT !.pc = "find", !.kind = "cron"]])

\* The query returns.  The request calls verifyAndUpdateOrder, which
\* assigns and awaits order.save().  The checker gets the order when its
\* payment is pending and it is due for its first, second or third check
\* (inWindow: the order date is in that window); it counts the check and
\* awaits checkOrderPaymentStatus.
Found(h, inWindow) ==
  /\ handlers[h].pc = "find"
  /\ LET me == handlers[h] IN
     IF me.kind = "verify"
     THEN Becomes([World EXCEPT
            !.handlers[h].base = order,
            !.handlers[h].doc = UpdatedOrder(order, me.signature),
            !.handlers[h].pc = "save"])
     ELSE IF order.paymentStatus = "pending" /\ order.checkCount < 3
             /\ inWindow
     THEN Becomes([World EXCEPT
            !.handlers[h].base = order,
            !.handlers[h].doc = [order EXCEPT !.checkCount = @ + 1],
            !.handlers[h].pc = "check"])
     ELSE Becomes(Ends(World, h, "nothing to check"))

\* checkOrderPaymentStatus returns to the checker: a paid order goes to
\* verifyAndUpdateOrder without a signature; otherwise only the check
\* count is saved.
Checked(h, st) ==
  /\ handlers[h].pc = "check"
  /\ IF st = "paid"
     THEN Becomes([World EXCEPT
            !.handlers[h].doc = UpdatedOrder(@, "none"),
            !.handlers[h].pc = "save"])
     ELSE Becomes([World EXCEPT !.handlers[h].pc = "saveCount"])

\* The order.save() of the check count completes.
CountSaved(h) ==
  /\ handlers[h].pc = "saveCount"
  /\ LET me == handlers[h] IN
     Becomes(Ends([World EXCEPT !.order = Save(@, me.doc, me.base)],
                  h, "counted"))

\* The order.save() of verifyAndUpdateOrder completes (ok) or throws into
\* its catch block, and verifyAndUpdateOrder returns.  Without success the
\* request answers 400 and the checker leaves the order; with success both
\* send the confirmation e-mails when emailSent.customer of their document
\* is false.
Saved(h, ok) ==
  /\ handlers[h].pc = "save"
  /\ LET me == handlers[h]
         w == IF ok THEN [World EXCEPT !.order = Save(@, me.doc, me.base),
                                       !.handlers[h].base = me.doc]
              ELSE World
     IN IF ~(ok /\ Verified(me.signature))
        THEN Becomes(Ends(w, h, "rejected"))
        ELSE IF ~me.doc.emailSent.customer
        THEN submitted < MaxJobs /\ Becomes(SendNext(w, h))
        ELSE Becomes(Ends(w, h, "verified"))

\* The promise of the send function that handler h awaits is resolved: the
\* next e-mail is sent, and after the third the flags are set and saved.
MailSettled(h) ==
  /\ handlers[h].pc = "mail"
  /\ tasks[handlers[h].job].resolveCalls > 0
  /\ IF handlers[h].mails < Len(ConfirmationMails)
     THEN submitted < MaxJobs /\ Becomes(SendNext(World, h))
     ELSE Becomes([World EXCEPT
            !.handlers[h].doc.emailSent = [customer |-> TRUE, admin |-> TRUE],
            !.handlers[h].job = 0,
            !.handlers[h].pc = "saveFlags"])

\* The order.save() of the flags completes, and the handler ends.
FlagsSaved(h) ==
  /\ handlers[h].pc = "saveFlags"
  /\ LET me == handlers[h] IN
     Becomes(Ends([World EXCEPT !.order = Save(@, me.doc, me.base)],
                  h, "verified"))

\* ---------------------------------------------------------------------
\* The getters the status routes call (GET /api/status/email and
\* GET /api/status/check).

\* A status that reports the active counter as the queue length.
GetStatusCountsActive(w) ==
  [queueLength |-> w.activeTasks, activeTasks |-> w.activeTasks,
   isProcessing |-> w.processing]
\* The object getStatus returns.
GetStatusValue(w) ==
  [queueLength |-> Len(w.queue), activeTasks |-> w.activeTasks,
   isProcessing |-> w.processing]

\* taskQueue.getStatus().
GetStatus ==
  /\ observed.op # "getStatus"
  /\ observed' = [NoObserved EXCEPT !.op = "getStatus", !.calls = 1,
                                    !.status = GetStatusValue(World)]
  /\ UNCHANGED state

\* ((success / total) * 100).toFixed(2), in hundredths of a percent: the
\* quotient rounded to the nearest hundredth.  '0%' when total is 0.
Percent(success, total) ==
  IF total = 0 THEN 0 ELSE (success * 20000 + total) \div (2 * total)

\* The object getStats computes from an array of entries.
StatsOf(logs) ==
  LET total == Len(logs)
      success == Len(SelectSeq(logs, LAMBDA e : e.status = "success"))
  IN [total |-> total, success |-> success, failed |-> total - success,
      successRate |-> Percent(success, total),
      lastAttempt |-> IF total > 0 THEN logs[1] ELSE NoEntry]

\* Statistics computed from the parsed file.
GetStatsOfFile(w) == StatsOf(ParsedLogs(w.logFile))
\* The object getStats returns.
GetStatsValue(w) == StatsOf(w.memoryLogs)

\* emailLogger.getStats().
GetStats ==
  /\ observed.op \in {"none", "getStats"}
  /\ observed.calls < MaxReads
  /\ observed' = [NoObserved EXCEPT !.op = "getStats",
                                    !.calls = observed.calls + 1,
                                    !.stats = GetStatsValue(World)]
  /\ UNCHANGED state

\* The limits getRecentLogs is called with: the 10 of the status route, the
\* default 50, and a count of no entries and of more than the log can hold.
Limits == {0, 10, 50, 150}

\* A slice that takes the last entries.
SliceOfEnd(s, end) ==
  IF end >= Len(s) THEN s ELSE SubSeq(s, Len(s) - end + 1, Len(s))
\* Array.prototype.slice(0, end): a negative end counts from the end of the
\* array.
Slice(s, end) ==
  LET k == IF end < 0 THEN (IF Len(s) + end < 0 THEN 0 ELSE Len(s) + end)
           ELSE IF end > Len(s) THEN Len(s) ELSE end
  IN SubSeq(s, 1, k)

\* emailLogger.getRecentLogs(limit).
GetRecentLogs(limit) ==
  /\ observed.op = "none"
  /\ observed' = [NoObserved EXCEPT !.op = "getRecentLogs", !.calls = 1,
                                    !.limit = limit,
                                    !.recent = Slice(memoryLogs, limit)]
  /\ UNCHANGED state

Next ==
  \/ \E name \in {"task"}, arg \in RetryArgs : AddTask(name, arg)
  \/ \E j \in Jobs : BodyReturns(j)
  \/ \E j \in Jobs, e \in Thrown : BodyThrows(j, e)
  \/ \E j \in Jobs : RetryTimer(j)

Spec == Init /\ [][Next]_vars

\* The queue with the e-mail jobs of emailService, and the logger.
MailNext ==
  \/ \E name \in MailNames :
        submitted < MaxMailJobs /\ AddTask(name, DefaultMaxRetries)
  \/ \E file \in MailFiles : LoggerInit(file)
  \/ Activate
  \/ \E j \in Jobs : PrimarySent(j)
  \/ \E j \in Jobs : PrimaryFailed(j)
  \/ \E j \in Jobs : FallbackSent(j)
  \/ \E j \in Jobs : FallbackFailed(j)
  \/ \E j \in Jobs, ok \in BOOLEAN : LogRead(j, ok)
  \/ \E j \in Jobs, ok \in BOOLEAN : LogWrite(j, ok)

MailSpec == MailInit /\ [][MailNext]_vars

\* The logger alone: a program that calls init first, or not at all, and
\* then awaits one logEmailAttempt call after the other.
LogNext ==
  \/ \E file \in TestFiles : test.calls = 0 /\ LoggerInit(file)
  \/ TestRecord
  \/ \E ok \in BOOLEAN : TestLogRead(ok)
  \/ \E ok \in BOOLEAN : TestLogWrite(ok)

LogSpec == Init /\ [][LogNext]_vars

\* The start of the server: testConnection runs while the first e-mail
\* jobs are submitted and processed.
StartNext ==
  \/ \E name \in MailNames :
        submitted < MaxStartJobs /\ AddTask(name, DefaultMaxRetries)
  \/ TestConnection
  \/ \E file \in MailFiles, ok \in BOOLEAN : InitReturns(file, ok)
  \/ \E o \in VerifyOutcomes : VerifyEnds(o)
  \/ \E ok \in BOOLEAN : FallbackTested(ok)
  \/ \E ok \in BOOLEAN : FallbackRetried(ok)
  \/ \E j \in Jobs : PrimarySent(j)
  \/ \E j \in Jobs : PrimaryFailed(j)
  \/ \E j \in Jobs : FallbackSent(j)
  \/ \E j \in Jobs : FallbackFailed(j)
  \/ \E j \in Jobs, ok \in BOOLEAN : LogRead(j, ok)
  \/ \E j \in Jobs, ok \in BOOLEAN : LogWrite(j, ok)

StartSpec == MailInit /\ [][StartNext]_vars

\* Payment verification of one order, with the queue that sends its
\* e-mails.
PayNext ==
  \/ \E h \in Handlers, sig \in Signatures : VerifyPayment(h, sig)
  \/ \E h \in Handlers : CronCheck(h)
  \/ \E h \in Handlers, inWindow \in BOOLEAN : Found(h, inWindow)
  \/ \E h \in Handlers, st \in PaymentStates : Checked(h, st)
  \/ \E h \in Handlers : CountSaved(h)
  \/ \E h \in Handlers, ok \in BOOLEAN : Saved(h, ok)
  \/ \E h \in Handlers : MailSettled(h)
  \/ \E h \in Handlers : FlagsSaved(h)
  \/ \E j \in Jobs : PrimarySent(j)
  \/ \E j \in Jobs : PrimaryFailed(j)
  \/ \E j \in Jobs : FallbackSent(j)
  \/ \E j \in Jobs : FallbackFailed(j)

PaySpec == Init /\ [][PayNext]_vars

\* The logger alone, with a status route that reads it.
ReadNext ==
  \/ LogNext
  \/ GetStats
  \/ \E limit \in Limits : GetRecentLogs(limit)

ReadSpec == Init /\ [][ReadNext]_vars

\* The queue, with a status route that reads it.
StatusNext ==
  \/ Next
  \/ GetStatus

StatusSpec == Init /\ [][StatusNext]_vars

\* ---------------------------------------------------------------------
\* Properties.

\* The jobs whose body has been called and has not returned or thrown yet.
InFlight ==
  {j \in Jobs : tasks[j].pc \in {"body", "primary", "fallback", "logRead", "logWrite"}}

Submitted(j) == tasks[j].pc # "none"
Settled(j) == tasks[j].resolveCalls > 0
Over(j) == tasks[j].pc = "done"

\* Invocations of the body of job j that threw.
Failures(j) ==
  tasks[j].retries
  + (IF Over(j) /\ (tasks[j].value.failed \/ ~Settled(j)) THEN 1 ELSE 0)

\* The entries of the memory log that belong to the order of job j.
EntriesOf(j) == SelectSeq(memoryLogs, LAMBDA e : e.orderId = j)
StatusCount(j, st) == Len(SelectSeq(EntriesOf(j), LAMBDA e : e.status = st))

\* C1: in every reachable state the job bodies that have been started and
\* have not completed are counted by activeTasks, and there are at most 3.
C1_ActiveAtMostThree ==
  /\ activeTasks = Cardinality(InFlight)
  /\ Cardinality(InFlight) <= 3

\* C1 witness: three bodies run while another job waits in the queue.
C1_CeilingReached == activeTasks = 3 /\ Len(queue) > 0

\* C2: the body of a job submitted with options maxRetries = N is invoked
\* at most N + 1 times.
C2_AtMostNPlusOneInvocations ==
  \A j \in Jobs : tasks[j].invocations <= tasks[j].options + 1

\* C3: a queued e-mail job settles with a delivery failure only after the
\* queue has re-invoked its body maxRetries times: every invocation whose
\* tiers all failed counts as a failure of the job and is retried.
C3_DeliveryFailureIsRetried ==
  \A j \in Jobs :
    (Settled(j) /\ tasks[j].taskName \in MailNames /\ ~tasks[j].value.success)
      => /\ tasks[j].retries = tasks[j].maxRetries
         /\ tasks[j].invocations = tasks[j].maxRetries + 1

\* C4: every submitted job gets its result settled; stated on the states: a
\* submitted job whose result is not settled is still queued, executing or
\* waiting for its retry timer, so that something is left that settles it.
C4_UnsettledJobIsInProgress ==
  \A j \in Jobs :
    Submitted(j) /\ ~Settled(j)
      => (tasks[j].pc = "timer" \/ j \in InFlight
          \/ \E i \in 1..Len(queue) : queue[i] = j)

\* C5: the result of a job is resolved exactly once, on the first successful
\* invocation or on retry exhaustion: resolve is called at most once, a job
\* whose processing is over has been resolved, and a resolved job is not
\* queued, executing or waiting for a retry.
C5_ResolvedExactlyOnce ==
  \A j \in Jobs :
    /\ tasks[j].resolveCalls <= 1
    /\ Over(j) <=> tasks[j].resolveCalls = 1

\* C6: once the body of a job submitted with maxRetries = N has failed
\* N + 1 times, the result is resolved with failed = true and retries = N,
\* and the body has been invoked exactly N + 1 times.
C6_ExhaustionResolvesWithRetriesN ==
  \A j \in Jobs :
    (Submitted(j) /\ Failures(j) >= tasks[j].options + 1)
      => /\ Settled(j)
         /\ tasks[j].value.failed
         /\ tasks[j].value.retries = tasks[j].options
         /\ tasks[j].invocations = tasks[j].options + 1

\* C7: whatever a job body throws, nothing escapes processQueue: no promise
\* of processQueue ends rejected.
C7_NothingEscapesProcessQueue == unhandled = 0

\* C8: when the body of an e-mail job has returned, the log holds one entry
\* for each tier attempt the body made.
C8_OneEntryPerTierAttempt ==
  \A j \in Jobs :
    (Over(j) /\ tasks[j].taskName \in MailNames)
      => Len(EntriesOf(j)) = Len(mail[j].attempts)

\* C9: when the primary tier failed and the fallback tier succeeded, the
\* body returns the fallback's success result and the log holds two entries
\* for the message, one failed and one success.
C9_FallbackSuccessLogsTwoAttempts ==
  \A j \in Jobs :
    (Over(j) /\ mail[j].attempts = <<"primary", "fallback">>
       /\ tasks[j].value.success)
      => /\ tasks[j].value.messageId = <<"fallback", j>>
         /\ Len(EntriesOf(j)) = 2
         /\ StatusCount(j, "failed") = 1
         /\ StatusCount(j, "success") = 1

\* C10: for a body that returned success = true, the log holds exactly one
\* entry with status success for the delivery, and its messageId is the one
\* the body returned.
C10_SuccessLoggedOnceWithMessageId ==
  \A j \in Jobs :
    (Over(j) /\ tasks[j].taskName \in MailNames /\ tasks[j].value.success)
      => /\ StatusCount(j, "success") = 1
         /\ \A i \in 1..Len(memoryLogs) :
              (memoryLogs[i].orderId = j /\ memoryLogs[i].status = "success")
                => memoryLogs[i].messageId = tasks[j].value.messageId

\* The tiers in their order of priority.
TierOrder == <<"primary", "fallback", "simulated">>
IsPrefix(s, t) == Len(s) <= Len(t) /\ \A i \in 1..Len(s) : s[i] = t[i]
InSeq(e, s) == \E i \in 1..Len(s) : s[i] = e
Tiered(j) == tasks[j].taskName \in TieredNames

\* The result the tier outcomes of the last invocation of job j call for:
\* the messageId of the first tier that sent the message, a failure with an
\* error when none did.
Expected(j) ==
  LET o == mail[j].outcomes
      sent(id) == [NoValue EXCEPT !.success = TRUE, !.messageId = id]
  IN
  IF o[1] = "sent" THEN sent(<<"primary", j>>)
  ELSE IF o[2] = "sent" THEN sent(<<"fallback", j>>)
  ELSE IF Len(o) = 3 /\ o[3] = "sent" THEN sent(<<"noop", j>>)
  ELSE [NoValue EXCEPT !.error = "both failed"]

\* C11: in one invocation of a tiered body the tiers are attempted in the
\* order primary, fallback, simulated, each at most once and one at a time:
\* every attempt but the first starts after the attempt before it has
\* completed with a failure.
C11_TiersInOrderOnceEach ==
  \A j \in Jobs :
    LET m == mail[j] IN
    /\ IsPrefix(m.attempts, TierOrder)
    /\ Len(m.outcomes) <= Len(m.attempts)
    /\ Len(m.attempts) <= Len(m.outcomes) + 1
    /\ Len(m.attempts) = Len(m.outcomes) + 1
         <=> tasks[j].pc \in {"primary", "fallback"}
    /\ \A i \in 2..Len(m.attempts) : m.outcomes[i - 1] = "failed"

\* C11 witness: a body has gone through all three tiers.
C11_AllThreeTiersTried ==
  \E j \in Jobs : Over(j) /\ mail[j].attempts = TierOrder

\* C12: the NoOp service's sendMail is invoked only with its active flag
\* true; while the flag is false, a message whose primary and fallback
\* attempts both failed is not reported as success.
C12_SimulatedOnlyWhenActive ==
  \A j \in Jobs :
    /\ InSeq("simulated", mail[j].attempts) => active
    /\ (~active /\ Over(j) /\ Tiered(j)
          /\ mail[j].outcomes = <<"failed", "failed">>)
         => ~tasks[j].value.success

\* C12 witness: one message failed on both transports and was reported as
\* not delivered while the flag was false, and a later one went to the NoOp
\* service after the flag was set.
C12_FailedThenSimulated ==
  \E a, b \in Jobs :
    /\ Over(a) /\ mail[a].attempts = <<"primary", "fallback">>
    /\ mail[a].outcomes = <<"failed", "failed">> /\ ~tasks[a].value.success
    /\ Over(b) /\ InSeq("simulated", mail[b].attempts)
    /\ tasks[b].value.success

\* C13: a tiered body returns success = true with the messageId of the
\* first tier, in priority order, that sent the message, and success = false
\* with an error exactly when every tier it could use failed.
C13_ResultOfFirstTierThatSucceeds ==
  \A j \in Jobs :
    (Over(j) /\ Tiered(j)) =>
      /\ tasks[j].value = Expected(j)
      /\ tasks[j].value.success
           <=> \E i \in 1..Len(mail[j].outcomes) : mail[j].outcomes[i] = "sent"
      /\ ~tasks[j].value.success
           <=> (tasks[j].value.error # "null"
                /\ tasks[j].value.messageId = NullId)

\* C13 witness: three bodies have returned, one delivered by the primary
\* transporter, one by the fallback and one not delivered at all.
C13_EveryKindOfResult ==
  \E a, b, c \in Jobs :
    /\ Over(a) /\ Tiered(a) /\ mail[a].outcomes = <<"sent">>
    /\ Over(b) /\ Tiered(b) /\ mail[b].outcomes = <<"failed", "sent">>
    /\ Over(c) /\ Tiered(c) /\ mail[c].outcomes = <<"failed", "failed">>

\* C14: once all logEmailAttempt calls have returned, none of them with a
\* failed or skipped file operation, and the file holds fewer than 500
\* entries, every entry recorded is in the file.
C14_NoEntryLost ==
  ( /\ \A j \in Jobs : tasks[j].pc \notin {"logRead", "logWrite"}
    /\ \A r \in returned : r.file = "written"
    /\ Len(logFile.logs) < 500 )
    => \A r \in returned : InSeq(r.entry, logFile.logs)

\* C15: jobs are started in the order of their submission: of two jobs, the
\* one submitted second has not had its body invoked before the one
\* submitted first (jobs are numbered in the order of their addTask calls).
C15_StartedInSubmissionOrder ==
  \A a, b \in Jobs :
    (a < b /\ tasks[b].invocations > 0) => tasks[a].invocations > 0

\* C15 witness: two jobs wait for their first invocation behind a retried
\* job, while earlier ones have been started.
C15_LaterJobsWait ==
  \E a, b \in Jobs :
    /\ a < b /\ Len(queue) = 3 /\ queue[2] = a /\ queue[3] = b
    /\ tasks[queue[1]].retries > 0
    /\ tasks[a].invocations = 0 /\ tasks[b].invocations = 0

\* C16: a job whose body failed with retries left is not in the queue and
\* holds no slot while its retry timer runs; when the timer fires it is put
\* at the tail of the queue, behind the jobs queued in the meantime (or
\* started at once when the queue is idle and empty).
C16_RetryReentersAtTail ==
  /\ [](\A j \in Jobs :
          tasks[j].pc = "timer"
            => /\ ~InSeq(j, queue)
               /\ j \notin InFlight
               /\ activeTasks = Cardinality(InFlight))
  /\ [][\A j \in Jobs :
          (tasks[j].pc = "timer" /\ tasks'[j].pc # "timer")
            => \/ queue' = Append(queue, j)
               \/ (queue = <<>> /\ ~processing /\ queue' = <<>>
                   /\ tasks'[j].pc = "body")]_vars

\* C16 witness: the first job has failed once and is back in the queue
\* behind a job submitted after it, and another job submitted after it has
\* been started and has finished.
C16_RetriedBehindLaterJob ==
  \E k, d \in Jobs :
    /\ k > 1 /\ d > 1
    /\ queue = <<k, 1>>
    /\ tasks[1].retries = 1 /\ tasks[1].invocations = 1
    /\ Over(d)

\* C17: the retry count of a job is between 0 and the maxRetries of its
\* task object, and it changes only by one, upwards, when an invocation of
\* the body fails while retries remain.
C17_RetriesWithinMaxRetries ==
  /\ [](\A j \in Jobs :
          tasks[j].retries >= 0 /\ tasks[j].retries <= tasks[j].maxRetries)
  /\ [][\A j \in Jobs :
          tasks'[j].retries # tasks[j].retries
            => /\ tasks'[j].retries = tasks[j].retries + 1
               /\ tasks[j].retries < tasks[j].maxRetries
               /\ tasks[j].pc = "body"
               /\ tasks'[j].pc = "timer"]_vars

\* C17 witness: a job has used all its retries and has failed for good.
C17_RetriesExhausted ==
  \E j \in Jobs :
    /\ Over(j) /\ tasks[j].value.failed
    /\ tasks[j].retries = tasks[j].maxRetries
    /\ tasks[j].value.retries = tasks[j].maxRetries

\* The entries of the first n calls of the caller that uses the logger
\* alone, most recent first.
TestEntries(n) == [i \in 1..n |-> LogEntry(TestData(n - i + 1))]

\* C18: after n logEmailAttempt calls the memory log holds min(n, 100)
\* entries, most recent first, and they are the entries of the last
\* min(n, 100) calls.
C18_MemoryHoldsNewestHundred ==
  LET n == test.calls
      k == IF n < 100 THEN n ELSE 100
  IN memoryLogs = SubSeq(TestEntries(n), 1, k)

\* C18 witness: after 150 calls the memory log holds the entries of calls
\* 150 down to 51.
C18_HundredOfHundredFifty ==
  /\ test.calls = 150
  /\ Len(memoryLogs) = 100
  /\ memoryLogs[1].orderId = 150
  /\ memoryLogs[100].orderId = 51

C20_LogFailureChangesNothing ==
  /\ unhandled = 0
  /\ \A j \in Jobs : tasks[j].retries = 0 /\ tasks[j].pc # "timer"
  /\ \A j \in Jobs :
       (Over(j) /\ tasks[j].taskName \in MailNames)
         => /\ Settled(j)
            /\ ~tasks[j].value.failed
            /\ Tiered(j) => tasks[j].value = Expected(j)
  /\ \A r \in returned : InSeq(r.entry, memoryLogs)

\* C20 witness: a body whose message the fallback delivered has returned
\* the fallback's result although the log file could not be written.
C20_DeliveredWithLogFailure ==
  \E j \in Jobs :
    /\ Over(j) /\ mail[j].outcomes = <<"failed", "sent">>
    /\ tasks[j].value.success
    /\ \E r \in returned :
         r.file = "failed" /\ r.entry.orderId = j /\ r.entry.status = "success"

\* C21: getStats reads the memory log only and changes nothing: what it
\* returns has total = success + failed and total = the length of the memory
\* log, at most 100, with success the entries of the memory log of status
\* success, whatever the file holds; the call leaves the state of the
\* services as it is, and a second call with no logEmailAttempt in between
\* returns the same value.
C21_StatsOfMemoryOnly ==
  /\ [](observed.op = "getStats" =>
          /\ observed.stats.total = observed.stats.success + observed.stats.failed
          /\ observed.stats.total = Len(memoryLogs)
          /\ observed.stats.total <= 100
          /\ observed.stats.success =
               Cardinality({i \in 1..Len(memoryLogs) :
                              memoryLogs[i].status = "success"})
          /\ observed.stats.lastAttempt =
               (IF Len(memoryLogs) > 0 THEN memoryLogs[1] ELSE NoEntry))
  /\ [][observed'.op = "getStats" =>
          /\ UNCHANGED state
          /\ observed.op = "getStats" => observed'.stats = observed.stats]_vars

\* C21 witness: a second getStats in a row, of a full memory log with as
\* many successes as failures, while the file holds 500 entries.
C21_SecondCallWithFullLogs ==
  /\ observed.op = "getStats"
  /\ observed.calls = 2
  /\ observed.stats.total = 100
  /\ observed.stats.success = 50
  /\ Len(logFile.logs) = 500

\* C22: getRecentLogs(limit) returns at most limit entries, the first ones
\* of the memory log in its order (most recent first), and leaves the state
\* of the logger as it is.
C22_RecentIsPrefixOfMemory ==
  /\ [](observed.op = "getRecentLogs" =>
          /\ Len(observed.recent) <= observed.limit
          /\ Len(observed.recent) <= Len(memoryLogs)
          /\ Len(observed.recent) = observed.limit
               \/ Len(observed.recent) = Len(memoryLogs)
          /\ \A i \in 1..Len(observed.recent) :
               observed.recent[i] = memoryLogs[i])
  /\ [][observed'.op = "getRecentLogs" => UNCHANGED state]_vars

\* C22 witness: the 10 most recent of 100 entries.
C22_TenOfHundred ==
  /\ observed.op = "getRecentLogs"
  /\ observed.limit = 10
  /\ Len(observed.recent) = 10
  /\ Len(memoryLogs) = 100
  /\ observed.recent[1].orderId > observed.recent[10].orderId

\* C23: getStatus returns the length of the queue, the active counter and
\* the processing flag as they are, and leaves the queue, the counter, the
\* flag and every task as they are.
C23_StatusIsSnapshot ==
  /\ [](observed.op = "getStatus" =>
          /\ observed.status.queueLength = Len(queue)
          /\ observed.status.activeTasks = activeTasks
          /\ observed.status.isProcessing = processing)
  /\ [][observed'.op = "getStatus" => UNCHANGED state]_vars

\* C23 witness: a status taken while three bodies run and one job waits.
C23_BusySnapshot ==
  /\ observed.op = "getStatus"
  /\ observed.status.queueLength = 1
  /\ observed.status.activeTasks = 3
  /\ observed.status.isProcessing

\* The jobs that wait for their retry timer.
Waiting == {j \in Jobs : tasks[j].pc = "timer"}
\* The places of the queue that hold job j.
PlacesOf(j) == {i \in 1..Len(queue) : queue[i] = j}

\* A step in which addTask is called, a step in which a retry timer fires,
\* a step in which an invocation of a job body completes, and the jobs a
\* step starts.
SubmitStep == submitted' = submitted + 1
RetryStep == \E j \in Jobs : tasks[j].pc = "timer" /\ tasks'[j].pc # "timer"
CompletionStep ==
  \E j \in InFlight : tasks'[j].pc \in {"done", "timer"}
StartedInStep ==
  {j \in Jobs : tasks[j].pc = "queued" /\ tasks'[j].pc # "queued"}

C25_CompletionRestartsQueue ==
  [][CompletionStep =>
       /\ activeTasks' = activeTasks - 1 + Cardinality(StartedInStep)
       /\ Len(queue) > 0 => Cardinality(StartedInStep) >= 1
       /\ Cardinality(StartedInStep) <= Len(queue)
       /\ queue' = SubSeq(queue, Cardinality(StartedInStep) + 1, Len(queue))
       /\ \A i \in 1..Cardinality(StartedInStep) : queue[i] \in StartedInStep
       /\ ~(Len(queue') > 0 /\ activeTasks' = 0)]_vars

\* C25 witness: a job is over, two bodies of jobs submitted after it run,
\* and another job waits: the completion started the two.
C25_CompletionStartedTwo ==
  /\ Over(1)
  /\ tasks[2].pc = "body"
  /\ tasks[3].pc = "body"
  /\ tasks[2].invocations = 1
  /\ tasks[3].invocations = 1
  /\ activeTasks = 2
  /\ Len(queue) > 0

\* C26: between the callbacks, processing is true exactly when
\* activeTasks > 0, activeTasks is the number of bodies in flight and not
\* negative, and when processing is false the queue is empty.
C26_ProcessingIffActive ==
  /\ processing <=> activeTasks > 0
  /\ activeTasks >= 0
  /\ activeTasks = Cardinality(InFlight)
  /\ ~processing => queue = <<>>

\* C26 witness: the queue has gone back to rest after work: a job is over,
\* a job waits for its retry timer, and processing is false.
C26_AtRestWithTimerPending ==
  /\ ~processing
  /\ activeTasks = 0
  /\ \E j \in Jobs : Over(j)
  /\ Waiting # {}

\* C27: every submitted job that has not settled is at one place of the
\* queue, or executing, or waiting for its retry timer, and only there; so
\* submitted = queued + active + waiting + settled.
C27_EveryJobInOnePlace ==
  /\ \A j \in Jobs :
       /\ Cardinality(PlacesOf(j)) <= 1
       /\ (Submitted(j) /\ ~Settled(j)) =>
            Cardinality(PlacesOf(j))
            + (IF j \in InFlight THEN 1 ELSE 0)
            + (IF j \in Waiting THEN 1 ELSE 0) = 1
       /\ Settled(j) => PlacesOf(j) = {} /\ j \notin InFlight \cup Waiting
  /\ submitted = Len(queue) + activeTasks + Cardinality(Waiting)
                  + Cardinality({j \in Jobs : Settled(j)})

\* C28: testConnection sets noopEmailService.active only when the check of
\* the primary transporter has failed or timed out and the check of the
\* fallback transporter has failed too, and then it does; when one of the
\* two checks succeeds it leaves the flag as it is; and no step of the
\* program takes the flag from true to false.
C28_ActivatedOnlyWhenBothChecksFail ==
  /\ [][active' # active =>
          /\ ~active /\ active'
          /\ conn.pc = "fallbackRetry" /\ conn'.pc = "done"
          /\ conn'.primary \in {"error", "timeout"}
          /\ conn'.fallback = "failed"]_vars
  /\ [][(conn.pc # "done" /\ conn'.pc = "done") =>
          IF conn'.primary \in {"error", "timeout"} /\ conn'.fallback = "failed"
          THEN active'
          ELSE /\ conn'.primary = "ok" \/ conn'.fallback = "ok"
               /\ active' = active]_vars
  /\ [][active => active']_vars

\* C28 witness: testConnection has activated the NoOp service after a
\* timeout of the primary check and a failed fallback check, and a tiered
\* job has since been delivered by the simulated tier.
C28_ActivatedAfterTimeout ==
  /\ conn.pc = "done"
  /\ conn.primary = "timeout"
  /\ conn.fallback = "failed"
  /\ active
  /\ \E j \in Jobs : Settled(j) /\ tasks[j].value.messageId = <<"noop", j>>

\* The jobs submitted with a task name.
JobsNamed(name) == {j \in Jobs : tasks[j].taskName = name}

\* C29: each of the three confirmation e-mails of the order is submitted to
\* the queue at most once, however verify-payment requests and runs of the
\* checker interleave.
C29_ConfirmationMailsSubmittedOnce ==
  \A n \in 1..Len(ConfirmationMails) :
    Cardinality(JobsNamed(ConfirmationMails[n])) <= 1

\* A step in which the order.save() of verifyAndUpdateOrder completes for
\* handler h.
SaveStep(h) == handlers[h].pc = "save" /\ handlers'[h].pc # "save"

\* C30: the stored order gets payment.status completed or status confirmed
\* only from a verifyAndUpdateOrder whose signature verifies or is absent;
\* a verifyAndUpdateOrder whose signature does not verify leaves the status,
\* sets payment.status to failed and reports no success; and payment.status
\* never goes from completed to failed.
C30_CompletedOnlyWhenVerified ==
  /\ [][(\/ order'.paymentStatus = "completed"
            /\ order.paymentStatus # "completed"
         \/ order'.status = "confirmed" /\ order.status # "confirmed") =>
          \E h \in Handlers :
            /\ SaveStep(h)
            /\ Verified(handlers[h].signature)
            /\ order'.paymentStatus = "completed"
            /\ order'.status = "confirmed"]_vars
  /\ [][\A h \in Handlers :
          (SaveStep(h) /\ ~Verified(handlers[h].signature)) =>
            /\ order'.status = order.status
            /\ order' = order \/ order'.paymentStatus = "failed"
            /\ handlers'[h].result = "rejected"]_vars
  /\ [][order.paymentStatus = "completed" =>
          order'.paymentStatus # "failed"]_vars

====
